---- MODULE Spec2Model ----
(***************************************************************************)
(* A model of the flight search assistant: the chat program                *)
(* (flight_book_chat.py: convert_date_format, search_flights,              *)
(* FlightBookingChatbot.process_message, main with its busy-indicator      *)
(* thread) and the standalone program (book.py: book_flight, main).        *)
(*                                                                         *)
(* The LLM, the browsing agent and the console are the environment: what   *)
(* they answer is drawn from small sets.  Texts are modelled by their kind *)
(* ("progress", "analysis", ...), dates by year, month and day.            *)
(***************************************************************************)
EXTENDS Integers, Sequences, FiniteSets, TLC

VARIABLES
    mode,            \* which program runs: "chat" or "standalone"
    now,             \* what datetime.now() returns: [y, m, d, tod]
    pc,              \* where the main flow of the program is
    \* ---- flight_book_chat.py
    messages,        \* FlightBookingChatbot.messages, the transcript
    thinking,        \* main's flag, read by every animate thread
    anim,            \* the animate thread started in turn i: where it is
    turns,           \* turns started so far (the thread of this turn is anim[turns])
    user_input,      \* main's user_input: the line read last ("" before the first)
    args,            \* process_message's args while a search is in flight
    flight_results,  \* process_message's flight_results
    response,        \* the kind of text process_message returned
    \* ---- book.py
    call,            \* the arguments of the book_flight call in progress, or of the
                     \* one that raised until the except clause has run
    round_trip,      \* main's round_trip
    departure_date,  \* main's departure_date
    return_date,     \* main's return_date
    prompts,         \* how often the current date prompt was shown
    search_results,  \* main's search_results
    resultFile,      \* kayak_search_results.json
    \* ---- what happened in the current turn or run (history)
    llmCalls,        \* llm.ainvoke calls of this turn
    bookCalls,       \* book_flight calls of this turn or run
    msgsAtStart,     \* Len(messages) when the turn started
    req,             \* what the LLM asked for in this turn
    outcome,         \* "none", "returned" or "raised": how process_message ended
    raisedIn,        \* the function whose code raised, "" when none did
    agentRaised,     \* the browsing agent raised in this turn or run
    printed,         \* what the main flow printed last
    fileBefore       \* what kayak_search_results.json held when the run began

vars == <<mode, now, pc, user_input, messages, thinking, anim, turns, args, flight_results,
          response, call, round_trip, departure_date, return_date, prompts,
          search_results, resultFile, llmCalls, bookCalls, msgsAtStart, req,
          outcome, raisedIn, agentRaised, printed, fileBefore>>

chatVars == <<messages, thinking, anim, turns, args, flight_results, response,
              llmCalls, msgsAtStart, req, outcome, raisedIn>>

standaloneVars == <<round_trip, departure_date, return_date, prompts,
                    search_results, resultFile, fileBefore>>

----------------------------------------------------------------------------
(* Bounds of the model *)

MaxTurns == 2        \* chat turns per session
MaxPrompts == 2      \* times one date prompt is shown in a standalone run

Years == {2023, 2024}                 \* the year of "now"; 2024 is a leap year
NowDays == {<<1, 15>>, <<6, 15>>}     \* month and day of "now"
TimesOfDay == {0, 1}                  \* 0: exactly midnight, 1: later in the day
Months == {1, 2, 6, 13}               \* the MM of an input
Days == {5, 15, 29}                   \* the DD of an input

Nows == {[y |-> yy, m |-> md[1], d |-> md[2], tod |-> t] :
            yy \in Years, md \in NowDays, t \in TimesOfDay}

----------------------------------------------------------------------------
(* Values *)

NoneVal == [tag |-> "none", y |-> 0, m |-> 0, d |-> 0]
RaiseVal == [tag |-> "raise", y |-> 0, m |-> 0, d |-> 0]
DateStr(yy, mm, dd) == [tag |-> "str", y |-> yy, m |-> mm, d |-> dd]

\* A date argument as the LLM or the console gives it.
\*   missing: the key is absent     null: JSON null       empty: ""
\*   noslash: a string without '/'  nonnum: "aa/bb", "1/2/3"
\*   nonstr: a JSON number          md: "MM/DD"
Arg(kind) == [k |-> kind, m |-> 0, d |-> 0]
MD(mm, dd) == [k |-> "md", m |-> mm, d |-> dd]
MDArgs == {MD(mm, dd) : mm \in Months, dd \in Days}
DateArgs == {Arg(kind) : kind \in {"missing", "null", "empty", "noslash", "nonnum", "nonstr"}}
            \cup MDArgs
ConsoleDates == {Arg(kind) : kind \in {"empty", "noslash", "nonnum"}} \cup MDArgs

NoArgs == [origin |-> FALSE, destination |-> FALSE,
           departure_date |-> Arg("missing"), return_date |-> Arg("missing")]
FunctionArgs == [origin : BOOLEAN, destination : BOOLEAN,
                 departure_date : DateArgs, return_date : DateArgs]

NoCall == [departure_date |-> NoneVal, return_date |-> NoneVal,
           round_trip |-> FALSE, active |-> FALSE]
NoResult == [status |-> "none"]
NoReq == [kind |-> "none", missing |-> {}, baddate |-> FALSE]

----------------------------------------------------------------------------
(* The calendar, as datetime(year, month, day) and strptime check it *)

IsLeap(yy) == (yy % 4 = 0 /\ yy % 100 # 0) \/ yy % 400 = 0

DaysInMonth(yy, mm) ==
    IF mm = 2 THEN (IF IsLeap(yy) THEN 29 ELSE 28)
    ELSE IF mm \in {4, 6, 9, 11} THEN 30 ELSE 31

ValidDate(yy, mm, dd) == mm \in 1..12 /\ dd \in 1..DaysInMonth(yy, mm)

\* date a < date b, on year, month, day
DateLess(a, b) ==
    \/ a.y < b.y
    \/ a.y = b.y /\ a.m < b.m
    \/ a.y = b.y /\ a.m = b.m /\ a.d < b.d

----------------------------------------------------------------------------
(* flight_book_chat.py: convert_date_format *)

\* datetime(current_year, month, day) < datetime.now(): the left side is
\* midnight of that day, the right side carries the time of day.
TargetPassed(mm, dd, n) ==
    \/ mm < n.m
    \/ mm = n.m /\ dd < n.d
    \/ mm = n.m /\ dd = n.d /\ n.tod > 0

\* The value returned, or RaiseVal when the call raises.
convert_date_format(a, n) ==
    IF a.k \in {"null", "empty"} THEN NoneVal                   \* not date_str
    ELSE IF a.k = "nonstr" THEN RaiseVal                        \* no .split
    ELSE IF a.k \in {"noslash", "nonnum"} THEN RaiseVal         \* unpack, int()
    ELSE IF ~ValidDate(n.y, a.m, a.d) THEN RaiseVal             \* datetime(...)
    ELSE IF TargetPassed(a.m, a.d, n) THEN DateStr(n.y + 1, a.m, a.d)
    ELSE DateStr(n.y, a.m, a.d)

----------------------------------------------------------------------------
(* book.py: book_flight *)

\* datetime.strptime(v, "%Y-%m-%d") returns (TRUE) or raises (FALSE).
StrptimeOk(v) == v.tag = "str" /\ ValidDate(v.y, v.m, v.d)

\* The two strptime calls before the try block return.
book_flight_display(c) ==
    /\ StrptimeOk(c.departure_date)
    /\ (c.return_date.tag # "none" => StrptimeOk(c.return_date))

TripType(rt) == IF rt THEN "round-trip" ELSE "one-way"

\* a variant without the except clause: the agent's exception leaves book_flight
book_flight_no_try(c, agentOk) ==
    IF agentOk
    THEN [status |-> "success", details |-> "report",
          search_parameters |->
              [departure_date |-> c.departure_date,
               return_date |-> IF c.round_trip THEN c.return_date ELSE NoneVal,
               trip_type |-> TripType(c.round_trip)]]
    ELSE [status |-> "raise"]

\* What the try block yields: agentOk is whether agent.run() returned.
book_flight(c, agentOk) ==
    IF agentOk
    THEN [status |-> "success", details |-> "report",
          search_parameters |->
              [departure_date |-> c.departure_date,
               return_date |-> IF c.round_trip THEN c.return_date ELSE NoneVal,
               trip_type |-> TripType(c.round_trip)]]
    ELSE [status |-> "error", message |-> "agent error"]

----------------------------------------------------------------------------
(* flight_book_chat.py: search_flights, up to its call of book_flight *)

\* args.get('return_date')
ArgGet(a) == IF a.k = "missing" THEN Arg("null") ELSE a

\* Python truth of an argument value
Truthy(a) == a.k \notin {"null", "empty"}

\* [raised, call]: raised when a conversion raises; otherwise the arguments
\* book_flight is called with.
search_flights(dep, ret, n) ==
    LET departure_date_formatted == convert_date_format(dep, n)
        return_date_formatted ==
            IF Truthy(ret) THEN convert_date_format(ret, n) ELSE NoneVal
    IN  IF departure_date_formatted.tag = "raise" \/ return_date_formatted.tag = "raise"
        THEN [raised |-> TRUE, call |-> NoCall]
        ELSE [raised |-> FALSE,
              call |-> [departure_date |-> departure_date_formatted,
                        return_date |-> return_date_formatted,
                        round_trip |-> ret.k # "null",
                        active |-> TRUE]]

----------------------------------------------------------------------------
(* flight_book_chat.py: process_message, the search_flights branch up to the
   point where book_flight waits for the browsing agent *)

Missing(a) ==
    {f \in {"origin", "destination"} : ~a[f]}
    \cup (IF a.departure_date.k = "missing" THEN {"departure_date"} ELSE {})

\* [raisedIn, progress, called, call]: raisedIn is the function whose code
\* raised ("" when none did), progress whether the progress message was
\* appended, called whether book_flight was entered.
\* (a variant first: departure_date read with args.get)
function_call_get(a, n) ==
    LET s == search_flights(ArgGet(a.departure_date), ArgGet(a.return_date), n)
    IN  IF ~a.origin \/ ~a.destination
        THEN [raisedIn |-> "process_message", progress |-> FALSE,
              called |-> FALSE, call |-> NoCall]
        ELSE IF s.raised
        THEN [raisedIn |-> "convert_date_format", progress |-> TRUE,
              called |-> FALSE, call |-> NoCall]
        ELSE [raisedIn |-> IF book_flight_display(s.call) THEN "" ELSE "book_flight",
              progress |-> TRUE, called |-> TRUE, call |-> s.call]

function_call(a, n) ==
    LET s == search_flights(a.departure_date, ArgGet(a.return_date), n)
    IN  IF ~a.origin \/ ~a.destination                        \* args['origin']
        THEN [raisedIn |-> "process_message", progress |-> FALSE,
              called |-> FALSE, call |-> NoCall]
        ELSE IF a.departure_date.k = "missing"                \* args['departure_date']
        THEN [raisedIn |-> "process_message", progress |-> TRUE,
              called |-> FALSE, call |-> NoCall]
        ELSE IF s.raised
        THEN [raisedIn |-> "convert_date_format", progress |-> TRUE,
              called |-> FALSE, call |-> NoCall]
        ELSE [raisedIn |-> IF book_flight_display(s.call) THEN "" ELSE "book_flight",
              progress |-> TRUE, called |-> TRUE, call |-> s.call]

\* a date argument that is no string or that no year makes a date
BadDate(a) ==
    \/ a.k \in {"noslash", "nonnum", "nonstr"}
    \/ a.k = "md" /\ ~ValidDate(2024, a.m, a.d)

Msg(r, t) == [role |-> r, text |-> t]

\* a variant: after the error message the flow falls through to line 224
failure_messages_fall_through(msgs) ==
    Append(Append(msgs, Msg("assistant", "error_message")), Msg("assistant", "reply"))

\* the transcript after the failure branch: the error message appended
failure_messages(msgs) == Append(msgs, Msg("assistant", "error_message"))

\* a variant: the analysis prompt appended as an AIMessage
analysis_prompt_as_ai == Msg("assistant", "analysis_prompt")

\* the analysis prompt, appended as a HumanMessage
analysis_prompt == Msg("user", "analysis_prompt")

----------------------------------------------------------------------------
(* Initial states *)

PreviousFiles == {[status |-> "none"],
                  [status |-> "error", message |-> "earlier error"],
                  [status |-> "success", details |-> "earlier report",
                   search_parameters |->
                       [departure_date |-> DateStr(2023, 1, 5),
                        return_date |-> NoneVal, trip_type |-> "one-way"]]}

Init ==
    /\ mode \in {"chat", "standalone"}
    /\ now \in Nows
    /\ pc = IF mode = "chat" THEN "read" ELSE "s_start"
    /\ messages = <<Msg("system", "system_prompt")>>
    /\ thinking = FALSE
    /\ anim = [i \in 1..MaxTurns |-> "unborn"]
    /\ turns = 0
    /\ user_input = ""
    /\ args = NoArgs
    /\ flight_results = NoResult
    /\ response = "none"
    /\ call = NoCall
    /\ round_trip = FALSE
    /\ departure_date = NoneVal
    /\ return_date = NoneVal
    /\ prompts = 0
    /\ search_results = NoResult
    /\ resultFile \in (IF mode = "chat" THEN {[status |-> "none"]} ELSE PreviousFiles)
    /\ llmCalls = 0
    /\ bookCalls = 0
    /\ msgsAtStart = 1
    /\ req = NoReq
    /\ outcome = "none"
    /\ raisedIn = ""
    /\ agentRaised = FALSE
    /\ printed = "banner"
    /\ fileBefore = resultFile

----------------------------------------------------------------------------
(* flight_book_chat.py: main, the terminal loop *)

Lines == {"exit", "QUIT", "Bye", "exit now", "find a flight"}

\* str.lower() on the lines above
Lower(line) ==
    CASE line = "QUIT" -> "quit"
      [] line = "Bye" -> "bye"
      [] OTHER -> line

\* a variant: the line compared without lower()
IsExitCaseSensitive(line) == line \in {"exit", "quit", "bye"}

\* user_input.lower() in ['exit', 'quit', 'bye']
IsExit(line) == Lower(line) \in {"exit", "quit", "bye"}

\* input(), the exit check, and the start of a turn up to the call of
\* process_message: the flag is set and the animate thread started.
ReadInput ==
    /\ pc = "read"
    /\ \E line \in Lines :
        /\ user_input' = line
        /\ IF IsExit(line)
           THEN /\ pc' = "done"
                /\ printed' = "goodbye"
                /\ UNCHANGED <<chatVars, bookCalls, agentRaised>>
           ELSE /\ turns < MaxTurns
                /\ turns' = turns + 1
                /\ thinking' = TRUE
                /\ anim' = [anim EXCEPT ![turns + 1] = "test"]
                /\ pc' = "llm1"
                /\ printed' = "none"
                /\ llmCalls' = 0
                /\ bookCalls' = 0
                /\ msgsAtStart' = Len(messages)
                /\ req' = NoReq
                /\ outcome' = "none"
                /\ raisedIn' = ""
                /\ agentRaised' = FALSE
                /\ response' = "none"
                /\ UNCHANGED <<messages, args, flight_results>>
    /\ UNCHANGED <<mode, now, call, standaloneVars>>

\* animate: the test of the loop condition
AnimateTest(i) ==
    /\ anim[i] = "test"
    /\ anim' = [anim EXCEPT ![i] = IF thinking THEN "write" ELSE "exited"]
    /\ UNCHANGED <<mode, now, user_input, pc, messages, thinking, turns, args, flight_results,
                   response, call, standaloneVars, llmCalls, bookCalls,
                   msgsAtStart, req, outcome, raisedIn, agentRaised, printed>>

\* animate: the loop body: write a frame, sleep, next frame
AnimateWrite(i) ==
    /\ anim[i] = "write"
    /\ anim' = [anim EXCEPT ![i] = "test"]
    /\ UNCHANGED <<mode, now, user_input, pc, messages, thinking, turns, args, flight_results,
                   response, call, standaloneVars, llmCalls, bookCalls,
                   msgsAtStart, req, outcome, raisedIn, agentRaised, printed>>

\* a variant: the except clause leaves the loop
AfterExceptBreak == "done"

\* where the loop goes after the except clause has printed the error
AfterExcept == "read"

\* process_message returned: thinking = False
StopAnimation ==
    /\ pc = "returned"
    /\ thinking' = FALSE
    /\ pc' = "join"
    /\ UNCHANGED <<mode, now, user_input, messages, anim, turns, args, flight_results,
                   response, call, standaloneVars, llmCalls, bookCalls,
                   msgsAtStart, req, outcome, raisedIn, agentRaised, printed>>

\* t.join() returns once this turn's thread has ended; the reply is printed
JoinAndPrint ==
    /\ pc = "join"
    /\ anim[turns] = "exited"
    /\ printed' = "reply"
    /\ pc' = "read"
    /\ UNCHANGED <<mode, now, user_input, chatVars, call, standaloneVars, bookCalls, agentRaised>>

\* except Exception: the error is printed and the loop goes on
HandleError ==
    /\ pc = "except"
    /\ printed' = "error"
    /\ pc' = AfterExcept
    /\ call' = NoCall
    /\ UNCHANGED <<mode, now, user_input, chatVars, standaloneVars, bookCalls, agentRaised>>

----------------------------------------------------------------------------
(* flight_book_chat.py: process_message *)

\* The user message is appended and the LLM asked.  It raises, answers with
\* text, asks for another function, or asks for search_flights with arguments
\* a; then the progress message is appended, search_flights converts the
\* dates and book_flight runs up to agent.run().
LlmFirst ==
    /\ pc = "llm1"
    /\ llmCalls' = llmCalls + 1
    /\ LET withUser == Append(messages, Msg("user", "input"))
       IN \/ /\ messages' = withUser                       \* ainvoke raises
             /\ pc' = "except"
             /\ outcome' = "raised"
             /\ raisedIn' = "llm"
             /\ req' = [NoReq EXCEPT !.kind = "raise"]
             /\ UNCHANGED <<args, call, bookCalls, response>>
          \/ \E kind \in {"text", "other"} :               \* line 224
             /\ messages' = Append(withUser, Msg("assistant", "reply"))
             /\ response' = "reply"
             /\ pc' = "returned"
             /\ outcome' = "returned"
             /\ req' = [NoReq EXCEPT !.kind = kind]
             /\ UNCHANGED <<args, call, bookCalls, raisedIn>>
          \/ \E a \in FunctionArgs :
             LET f == function_call(a, now)
             IN /\ messages' = IF f.progress
                               THEN Append(withUser, Msg("assistant", "progress"))
                               ELSE withUser
                /\ bookCalls' = IF f.called THEN bookCalls + 1 ELSE bookCalls
                /\ req' = [kind |-> "search", missing |-> Missing(a),
                           baddate |-> BadDate(a.departure_date) \/ BadDate(a.return_date)]
                /\ raisedIn' = f.raisedIn
                /\ IF f.raisedIn # ""
                   THEN /\ pc' = "except"
                        /\ outcome' = "raised"
                        /\ call' = f.call
                        /\ UNCHANGED args
                   ELSE /\ pc' = "agent"
                        /\ args' = a
                        /\ call' = f.call
                        /\ UNCHANGED outcome
                /\ UNCHANGED response
    /\ UNCHANGED <<mode, now, user_input, thinking, anim, turns, flight_results, standaloneVars,
                   msgsAtStart, agentRaised, printed>>

\* agent.run() ends; book_flight returns its record and process_message
\* appends the analysis prompt or the error message.
AgentDone ==
    /\ pc = "agent"
    /\ \E agentOk \in BOOLEAN :
        LET r == book_flight(call, agentOk)
        IN /\ agentRaised' = ~agentOk
           /\ call' = NoCall
           /\ CASE r.status = "success" ->
                     /\ messages' = Append(messages, analysis_prompt)
                     /\ flight_results' = r
                     /\ pc' = "llm2"
                     /\ UNCHANGED <<args, response, outcome, raisedIn>>
                [] r.status = "error" ->
                     /\ messages' = failure_messages(messages)
                     /\ response' = "error_message"
                     /\ pc' = "returned"
                     /\ outcome' = "returned"
                     /\ args' = NoArgs
                     /\ UNCHANGED <<flight_results, raisedIn>>
                [] OTHER ->                                \* book_flight raised
                     /\ pc' = "except"
                     /\ outcome' = "raised"
                     /\ raisedIn' = "book_flight"
                     /\ args' = NoArgs
                     /\ UNCHANGED <<messages, flight_results, response>>
    /\ UNCHANGED <<mode, now, user_input, thinking, anim, turns, standaloneVars, llmCalls,
                   bookCalls, msgsAtStart, req, printed>>

\* the second ainvoke: its answer is appended and returned, or it raises
LlmSecond ==
    /\ pc = "llm2"
    /\ llmCalls' = llmCalls + 1
    /\ args' = NoArgs
    /\ flight_results' = NoResult
    /\ \/ /\ messages' = Append(messages, Msg("assistant", "analysis"))
          /\ response' = "analysis"
          /\ pc' = "returned"
          /\ outcome' = "returned"
          /\ UNCHANGED raisedIn
       \/ /\ pc' = "except"
          /\ outcome' = "raised"
          /\ raisedIn' = "llm"
          /\ UNCHANGED <<messages, response>>
    /\ UNCHANGED <<mode, now, user_input, thinking, anim, turns, call, standaloneVars,
                   bookCalls, msgsAtStart, req, agentRaised, printed>>

----------------------------------------------------------------------------
(* book.py: main, the standalone run *)

\* One pass of the departure loop: the date it leaves the loop with, or
\* RaiseVal when the prompt is shown again.
departure_prompt(inp, n) ==
    LET current_year == IF TargetPassed(inp.m, inp.d, n) THEN n.y + 1 ELSE n.y
    IN  IF inp.k \in {"empty", "noslash"} THEN RaiseVal       \* '/' not in input
        ELSE IF inp.k # "md" THEN RaiseVal                    \* int() raises
        ELSE IF ~ValidDate(n.y, inp.m, inp.d) THEN RaiseVal   \* datetime(...)
        ELSE IF ~ValidDate(current_year, inp.m, inp.d) THEN RaiseVal   \* strptime
        ELSE DateStr(current_year, inp.m, inp.d)

\* One pass of the return loop: [again, value]: whether the prompt is shown
\* again, and what return_date holds after the pass.
return_prompt(inp, dep, old) ==
    LET same == DateStr(dep.y, inp.m, inp.d)
        next == DateStr(dep.y + 1, inp.m, inp.d)
    IN  IF inp.k # "md" THEN [again |-> TRUE, value |-> old]
        ELSE IF ~StrptimeOk(same) THEN [again |-> TRUE, value |-> same]
        ELSE IF ~DateLess(same, dep) THEN [again |-> FALSE, value |-> same]
        ELSE IF ~StrptimeOk(next) THEN [again |-> TRUE, value |-> next]
        ELSE [again |-> ~DateLess(dep, next), value |-> next]

\* a variant: the file opened with 'a'
open_a_dump(old, new, dumpable) ==
    IF old.status = "none" THEN (IF dumpable THEN new ELSE [status |-> "partial"])
    ELSE [status |-> "appended"]

\* open(results_file, 'w') and json.dump: what the file holds afterwards
open_w_dump(old, new, dumpable) ==
    IF dumpable THEN new ELSE [status |-> "partial"]

\* origin, destination and the round trip question
AskTrip ==
    /\ pc = "s_start"
    /\ \E rt \in BOOLEAN : round_trip' = rt
    /\ pc' = "s_dep"
    /\ printed' = "none"
    /\ UNCHANGED <<mode, now, user_input, chatVars, call, departure_date, return_date, prompts,
                   search_results, resultFile, fileBefore, bookCalls, agentRaised>>

AskDeparture ==
    /\ pc = "s_dep"
    /\ prompts < MaxPrompts
    /\ \E inp \in ConsoleDates :
        LET r == departure_prompt(inp, now)
        IN IF r.tag = "raise"
           THEN /\ prompts' = prompts + 1
                /\ UNCHANGED <<pc, departure_date>>
           ELSE /\ departure_date' = r
                /\ prompts' = 0
                /\ pc' = IF round_trip THEN "s_ret" ELSE "s_call"
    /\ UNCHANGED <<mode, now, user_input, chatVars, call, round_trip, return_date,
                   search_results, resultFile, fileBefore, bookCalls, agentRaised, printed>>

AskReturn ==
    /\ pc = "s_ret"
    /\ prompts < MaxPrompts
    /\ \E inp \in ConsoleDates :
        LET r == return_prompt(inp, departure_date, return_date)
        IN /\ return_date' = r.value
           /\ IF r.again
              THEN /\ prompts' = prompts + 1
                   /\ UNCHANGED pc
              ELSE /\ prompts' = 0
                   /\ pc' = "s_call"
    /\ UNCHANGED <<mode, now, user_input, chatVars, call, round_trip, departure_date,
                   search_results, resultFile, fileBefore, bookCalls, agentRaised, printed>>

\* the dates are formatted for display and book_flight is called; it runs up
\* to agent.run()
MainCall ==
    /\ pc = "s_call"
    /\ LET c == [departure_date |-> departure_date, return_date |-> return_date,
                 round_trip |-> round_trip, active |-> TRUE]
       IN IF ~book_flight_display(c)                       \* lines 263, 264
          THEN /\ pc' = "s_done"
               /\ printed' = "error"
               /\ raisedIn' = "main"
               /\ UNCHANGED <<call, bookCalls>>
          ELSE /\ call' = c
               /\ bookCalls' = bookCalls + 1
               /\ pc' = "s_agent"
               /\ UNCHANGED <<printed, raisedIn>>
    /\ UNCHANGED <<mode, now, user_input, messages, thinking, anim, turns, args, flight_results,
                   response, llmCalls, msgsAtStart, req, outcome, standaloneVars,
                   agentRaised>>

\* agent.run() ends; book_flight returns; the result file is written and the
\* outcome printed.  dumpable: json.dump can serialise what agent.run()
\* returned (the error record holds two strings and always can be).
MainFinish ==
    /\ pc = "s_agent"
    /\ \E agentOk \in BOOLEAN, dumpable \in BOOLEAN :
        LET r == book_flight(call, agentOk)
            canDump == dumpable \/ r.status = "error"
        IN /\ agentOk \/ dumpable
           /\ agentRaised' = ~agentOk
           /\ IF r.status = "raise"
              THEN /\ printed' = "error"
                   /\ raisedIn' = "book_flight"
                   /\ UNCHANGED <<search_results, resultFile>>
              ELSE /\ search_results' = r
                   /\ resultFile' = open_w_dump(resultFile, r, canDump)
                   /\ printed' = IF ~canDump THEN "error"
                                 ELSE IF r.status = "success" THEN "completed"
                                 ELSE "failed"
                   /\ raisedIn' = IF canDump THEN "" ELSE "main"
    /\ pc' = "s_done"
    /\ call' = NoCall
    /\ UNCHANGED <<mode, now, user_input, messages, thinking, anim, turns, args, flight_results,
                   response, llmCalls, msgsAtStart, req, outcome, round_trip,
                   departure_date, return_date, prompts, bookCalls, fileBefore>>

----------------------------------------------------------------------------

Next ==
    \/ ReadInput
    \/ LlmFirst
    \/ AgentDone
    \/ LlmSecond
    \/ StopAnimation
    \/ JoinAndPrint
    \/ HandleError
    \/ \E i \in 1..MaxTurns : AnimateTest(i)
    \/ \E i \in 1..MaxTurns : AnimateWrite(i)
    \/ AskTrip
    \/ AskDeparture
    \/ AskReturn
    \/ MainCall
    \/ MainFinish

Spec == Init /\ [][Next]_vars

----------------------------------------------------------------------------
(* Properties *)

\* month and day mm/dd lie before today's month and day
MonthDayPassed(mm, dd, n) == mm < n.m \/ (mm = n.m /\ dd < n.d)

\* C1: every book_flight call that carries a return date, in chat mode and
\* in standalone mode, has its return date strictly after its departure date.
C1_ReturnStrictlyAfterDeparture ==
    (call.active /\ call.return_date.tag = "str" /\ call.departure_date.tag = "str")
        => DateLess(call.departure_date, call.return_date)

\* C2: the departure date handed to book_flight is in next year when its
\* month and day lie before today's, and in this year otherwise, today's own
\* date included, whatever the time of day.
C2_YearByCalendarDate ==
    (call.active /\ call.departure_date.tag = "str")
        => call.departure_date.y =
               IF MonthDayPassed(call.departure_date.m, call.departure_date.d, now)
               THEN now.y + 1 ELSE now.y

\* C3: in every book_flight call and in every success record, round_trip
\* (trip_type "round-trip") holds exactly when return_date is not null.
C3_RoundTripIffReturnDate ==
    /\ call.active => (call.round_trip <=> call.return_date.tag # "none")
    /\ \A r \in {flight_results, search_results} :
          r.status = "success"
              => (r.search_parameters.trip_type = "round-trip"
                      <=> r.search_parameters.return_date.tag # "none")

\* C4: book_flight never raises: no turn and no run ends with an exception
\* that came out of book_flight.
C4_BookFlightNeverRaises == raisedIn # "book_flight"

\* C5: a search_flights request with a missing field or a bad date ends with
\* process_message returning and an Assistant message as the last entry of
\* the transcript.
C5_MalformedArgumentsRecovered ==
    (req.kind = "search" /\ (req.missing # {} \/ req.baddate))
        => /\ outcome = "returned"
           /\ messages[Len(messages)].role = "assistant"

\* C6: when the search_flights arguments lack origin, destination or
\* departure_date, the turn ends in an error and book_flight is not called.
C6_MissingFieldNoSearch ==
    req.missing # {}
        => /\ bookCalls = 0
           /\ ~call.active
           /\ outcome = "raised"
           /\ raisedIn = "process_message"
           /\ pc \in {"except", "read", "done"}

C6_Witness ==
    /\ req.missing = {"departure_date"}
    /\ pc = "read"
    /\ printed = "error"
    /\ turns = 2

\* C7: when the browsing agent raises during book_flight in a chat turn,
\* nothing is raised out of book_flight or process_message: the turn returns
\* its reply, the join waits for a started thread with the flag cleared, and
\* the loop is back at its input or was left by an exit line.
C7_AgentFailureHandled ==
    (mode = "chat" /\ agentRaised)
        => /\ raisedIn = ""
           /\ outcome = "returned"
           /\ response = "error_message"
           /\ pc \in {"returned", "join", "read", "done"}
           /\ (pc = "join" => ~thinking /\ anim[turns] \in {"test", "write", "exited"})
           /\ (pc \in {"read", "done"} => printed \in {"reply", "goodbye"})

C7_Witness ==
    /\ mode = "chat"
    /\ agentRaised
    /\ pc = "read"
    /\ printed = "reply"
    /\ turns < MaxTurns

\* C8: a turn in which search_flights was requested, the agent did not raise
\* and process_message returned has called book_flight once and the LLM
\* twice, has appended user input, progress, analysis prompt (as user) and
\* analysis, in this order, and has returned the analysis.
C8_SuccessfulSearchTurn ==
    (req.kind = "search" /\ outcome = "returned" /\ ~agentRaised)
        => /\ bookCalls = 1
           /\ llmCalls = 2
           /\ Len(messages) = msgsAtStart + 4
           /\ SubSeq(messages, msgsAtStart + 1, msgsAtStart + 4)
                 = <<Msg("user", "input"), Msg("assistant", "progress"),
                     Msg("user", "analysis_prompt"), Msg("assistant", "analysis")>>
           /\ response = "analysis"
           /\ response = messages[Len(messages)].text

C8_Witness ==
    /\ req.kind = "search"
    /\ outcome = "returned"
    /\ ~agentRaised
    /\ printed = "reply"
    /\ msgsAtStart > 1

\* C9: the loop is left only from its input, by an exit line; a turn that
\* raised goes through the except clause, which prints the error and goes
\* back to the input.
C9_ErrorNeverEndsLoop ==
    [][/\ (pc' = "done" /\ pc # "done") => (pc = "read" /\ printed' = "goodbye")
       /\ (pc = "except" /\ pc' # "except") => (pc' = "read" /\ printed' = "error")
       /\ (outcome' = "raised" /\ outcome # "raised") => pc' = "except"]_vars

C9_Witness ==
    /\ pc = "llm1"
    /\ turns = 2
    /\ raisedIn = ""
    /\ Len(messages) = 2

\* C10: a standalone run whose search failed ends with the result file
\* holding exactly the status "error" and the message, whatever it held
\* before.
C10_FailedRunFile ==
    (mode = "standalone" /\ pc = "s_done" /\ agentRaised)
        => /\ resultFile = [status |-> "error", message |-> "agent error"]
           /\ DOMAIN resultFile = {"status", "message"}
           /\ printed = "failed"

C10_Witness ==
    /\ mode = "standalone"
    /\ pc = "s_done"
    /\ agentRaised
    /\ fileBefore.status = "success"
    /\ resultFile.status = "error"

\* C11: a line that is exit, quit or bye in any letter case ends the loop with
\* the goodbye message, with no LLM call, no turn and no change of the
\* transcript; every other line starts a turn of process_message.
C11_ExitWordsEndLoop ==
    [][(pc = "read" /\ pc' # "read")
          => IF user_input' \in {"exit", "quit", "bye", "EXIT", "QUIT", "BYE",
                                 "Exit", "Quit", "Bye"}
             THEN /\ pc' = "done"
                  /\ printed' = "goodbye"
                  /\ UNCHANGED <<messages, llmCalls, bookCalls, turns, thinking, anim>>
             ELSE /\ pc' = "llm1"
                  /\ turns' = turns + 1
                  /\ llmCalls' = 0]_vars

C11_Witness ==
    /\ pc = "done"
    /\ user_input = "QUIT"
    /\ printed = "goodbye"
    /\ turns = 1
    /\ Len(messages) > 1

\* C12: whenever the loop is at its input, after a reply or after an error,
\* no animate thread is running.
C12_IndicatorStoppedAfterTurn ==
    (mode = "chat" /\ pc = "read")
        => \A i \in 1..MaxTurns : anim[i] \in {"unborn", "exited"}

\* C13: every date book_flight is called with exists in the calendar.
C13_DatesHandedOverExist ==
    call.active
        => /\ call.departure_date.tag = "str"
                => ValidDate(call.departure_date.y, call.departure_date.m,
                             call.departure_date.d)
           /\ call.return_date.tag = "str"
                => ValidDate(call.return_date.y, call.return_date.m,
                             call.return_date.d)

\* C14: a chat turn in which book_flight returned its failure record has made
\* one LLM call and one book_flight call, has appended user input, progress
\* and the error message (as assistant), in this order and nothing else, and
\* has returned the error message.
C14_FailedSearchTurn ==
    (mode = "chat" /\ agentRaised)
        => /\ llmCalls = 1
           /\ bookCalls = 1
           /\ Len(messages) = msgsAtStart + 3
           /\ SubSeq(messages, msgsAtStart + 1, msgsAtStart + 3)
                 = <<Msg("user", "input"), Msg("assistant", "progress"),
                     Msg("assistant", "error_message")>>
           /\ response = messages[Len(messages)].text
           /\ flight_results = NoResult

C14_Witness ==
    /\ mode = "chat"
    /\ agentRaised
    /\ pc = "read"
    /\ printed = "reply"
    /\ response = "error_message"
    /\ msgsAtStart > 1

====
